---- MODULE Spec2Model ----
(***************************************************************************)
(* The authorization permission / policy modules of keycloak-admin-client: *)
(* lib/authorizations-permissions.js and lib/authorizations-policies.js.   *)
(* Every exported verb is a two-level factory; the inner function builds   *)
(* one request descriptor, hands it to the `request` dispatcher and maps   *)
(* the dispatcher's (err, resp, body) callback to resolve / reject.        *)
(*                                                                         *)
(* Granularity: one action per inner-function invocation (the Promise      *)
(* executor runs synchronously, so building and issuing the request is one *)
(* step) and one action per dispatcher callback.  Promise adoption         *)
(* (resolve(promise) in update) runs in microtasks, which the runtime      *)
(* drains before it delivers the next I/O callback, so a callback action   *)
(* includes the settling of the promises that adopted the settled one.     *)
(***************************************************************************)
EXTENDS Integers, Sequences, FiniteSets

\* Bounds of the model.
MaxCalls == 1        \* caller invocations in Spec (full input domain)
MaxInFlight == 2     \* caller invocations in SpecConc (concurrent calls)

VARIABLES
    clients,    \* client handle -> [baseUrl]            (client.baseUrl)
    privates,   \* client handle -> [accessToken]        (private-map)
    calls,      \* invocations of the inner functions, in invocation order
    requests    \* request descriptors handed to the dispatcher, in order

vars == <<clients, privates, calls, requests>>

----------------------------------------------------------------------------
\* JavaScript values

Undefined == "<undefined>"
Null == "<null>"

\* JS truthiness of undefined / null / string arguments.
Truthy(v) == v \notin {Undefined, Null, ""}

\* Template-literal interpolation `${v}`.
Interpolate(v) == IF v = Undefined THEN "undefined"
               ELSE IF v = Null THEN "null"
               ELSE v

\* A record argument (permission / policy): undefined, null or an object.
UndefinedRec == [k |-> "undefined", type |-> Undefined, id |-> Undefined]
NullRec == [k |-> "null", type |-> Undefined, id |-> Undefined]
Obj(t, i) == [k |-> "object", type |-> t, id |-> i]
\* (variant: only `permission === undefined` is refused)
TruthyRecNotUndefined(rec) == rec.k # "undefined"
TruthyRec(rec) == rec.k = "object"

\* Values a promise settles with, and the dispatcher's err / body.
UndefVal == [k |-> "undefined", v |-> <<>>]
ErrorVal(msg) == [k |-> "Error", v |-> <<msg>>]
ObjBody == [k |-> "object", v |-> <<"perm-a">>]
ArrBody == [k |-> "array", v |-> <<"perm-a", "perm-b">>]
TruthyVal(x) == x.k # "undefined"

----------------------------------------------------------------------------
\* Input domains

Handle == "kc"
Handles == {Handle}
Tokens == {"tok1", "tok2"}
Modules == {"permissions", "policies"}
Realms == {"master"}
ClientIds == {"c1"}
Types == {Undefined, "resource"}
RecIds == {Undefined, "p1"}
ArgIds == {Undefined, "", "p1"}
Records == {UndefinedRec, NullRec} \cup {Obj(t, i) : t \in Types, i \in RecIds}
Statuses == {200, 201, 204, 404}
Econn == ErrorVal("ECONNREFUSED")

\* What the dispatcher may hand to the callback: (err, resp.statusCode, body);
\* the body is a record or a list (200, 201), a record or nothing (204, 404).
BodiesOf(s) == IF s \in {200, 201} THEN {ObjBody, ArrBody} ELSE {ObjBody, UndefVal}
Answers ==
    UNION {{[err |-> UndefVal, statusCode |-> s, body |-> b] : b \in BodiesOf(s)} :
              s \in Statuses}
    \cup {[err |-> Econn, statusCode |-> s, body |-> UndefVal] : s \in Statuses}

NoAnswer == [err |-> UndefVal, statusCode |-> 0, body |-> UndefVal]

\* The reduced domains of SpecLogin and SpecConc: every absent argument, one
\* full record, and one answer per status class.
AnswersSmall ==
    {a \in Answers : /\ a.statusCode # 404
                     /\ (TruthyVal(a.err) => a.statusCode = 200)
                     /\ (~TruthyVal(a.err) => a.body = ObjBody)}
RecordsSmall == {UndefinedRec, NullRec, Obj("resource", "p1")}
FindArgsSmall == {<<Undefined, Undefined>>, <<"resource", "p1">>}
ArgIdsSmall == ArgIds

\* The full domains of Spec.
FindArgs == Types \X ArgIds

----------------------------------------------------------------------------
\* The modules

\* lib/authorizations.js: client.clients.authorizations.<name> is the module
\* required from './authorizations-<name>'.
Authorizations == [permissions |-> "permissions", policies |-> "policies"]

\* The path segment each module addresses.
Segment(m) == IF m = "permissions" THEN "permission" ELSE "policy"

\* The missing-argument errors.
RecMissing(m) == ErrorVal(Segment(m) \o " is missing")
IdMissing(m) == ErrorVal(Segment(m) \o "Id is missing")

\* `${client.baseUrl}/admin/realms/${realm}/clients/${id}/authz/resource-server/<segment>`
BasePath(h, m, realm, id) ==
    <<clients[h].baseUrl, "admin", "realms", Interpolate(realm), "clients",
      Interpolate(id), "authz", "resource-server", Segment(m)>>

CreateUrl(h, m, realm, id, rec) ==
    BasePath(h, m, realm, id) \o <<Interpolate(rec.type)>>

\* find: if (permissionId && permissionType) ... else ...
\* (variant: `||` in place of `&&`)
FindUrlEither(h, m, realm, id, ptype, pid) ==
    IF Truthy(pid) \/ Truthy(ptype)
    THEN BasePath(h, m, realm, id) \o <<Interpolate(ptype), Interpolate(pid)>>
    ELSE BasePath(h, m, realm, id)
FindUrl(h, m, realm, id, ptype, pid) ==
    IF Truthy(pid) /\ Truthy(ptype)
    THEN BasePath(h, m, realm, id) \o <<Interpolate(ptype), Interpolate(pid)>>
    ELSE BasePath(h, m, realm, id)

UpdateUrl(h, m, realm, id, rec) ==
    BasePath(h, m, realm, id) \o <<Interpolate(rec.type), Interpolate(rec.id)>>

RemoveUrl(h, m, realm, id, pid) ==
    BasePath(h, m, realm, id) \o <<Interpolate(pid)>>

\* auth: { bearer: privates.get(client).accessToken }
\* (variant: the token read once, when the factory bound the client)
BearerAtBind(h) == "tok1"
Bearer(h) == privates[h].accessToken

Expected(verb) ==
    CASE verb = "create" -> 201
      [] verb = "find" -> 200
      [] verb = "update" -> 204
      [] verb = "remove" -> 204

----------------------------------------------------------------------------
\* Invocations and request descriptors

\* An invocation of an inner function and the promise it returned.
\* parent: the update invocation whose callback made this (find) call, or 0.
\* follows: the invocation whose promise this promise was resolved with, or 0.
\* nResolve / nReject: how often the code called resolve / reject.
NewCall(m, verb, realm, id, rec, ptype, pid, parent) ==
    [module |-> m, verb |-> verb, realm |-> realm, id |-> id, rec |-> rec,
     ptype |-> ptype, pid |-> pid, parent |-> parent,
     state |-> "pending", value |-> UndefVal, follows |-> 0,
     nResolve |-> 0, nReject |-> 0]

\* return reject(new Error('... is missing'))
RejectedCall(call, error) ==
    [call EXCEPT !.state = "rejected", !.value = error, !.nReject = 1]

\* The request descriptor `req`, and the dispatcher's answer once delivered.
Req(c, method, url, bearer, body) ==
    [call |-> c, method |-> method, url |-> url, bearer |-> bearer,
     body |-> body, answered |-> FALSE, answer |-> NoAnswer]

TopLevel == Cardinality({c \in DOMAIN calls : calls[c].parent = 0})

\* The promise whose resolve / reject the callback of request r closes over.
\* (variant: resolve / reject kept in one module-level slot, overwritten by
\* every invocation)
OwnerLatest(r) == Len(calls)
Owner(r) == requests[r].call

\* The callback body shared by the four verbs:
\*   if (err) return reject(err);
\*   if (resp.statusCode !== expected) return reject(body);
\*   return resolve(...);
\* as the sequence of settle calls it makes.
\* (variants: the `return`s dropped; any 2xx accepted; err never looked at)
RespondNoReturn(expected, ans) ==
    (IF TruthyVal(ans.err) THEN <<"rejectErr">> ELSE <<>>)
    \o (IF ans.statusCode # expected THEN <<"rejectBody">> ELSE <<"success">>)
RespondAny2xx(expected, ans) ==
    IF TruthyVal(ans.err) THEN <<"rejectErr">>
    ELSE IF ans.statusCode \notin 200..299 THEN <<"rejectBody">>
    ELSE <<"success">>
RespondIgnoreErr(expected, ans) ==
    IF ans.statusCode # expected THEN <<"rejectBody">> ELSE <<"success">>
Respond(expected, ans) ==
    IF TruthyVal(ans.err) THEN <<"rejectErr">>
    ELSE IF ans.statusCode # expected THEN <<"rejectBody">>
    ELSE <<"success">>

Count(steps, kinds) == Cardinality({i \in DOMAIN steps : steps[i] \in kinds})

\* The promise of call c after the callback made the settle calls `steps`;
\* a promise that is settled, or resolved with another promise, ignores them.
\* okValue is what resolve is called with; okFollows the invocation whose
\* promise resolve is called with (0: a plain value).
Settle(cs, c, steps, ans, okValue, okFollows) ==
    LET open == cs[c].state = "pending" /\ cs[c].follows = 0
        first == Head(steps)
    IN [cs EXCEPT ![c] =
          [@ EXCEPT
             !.nResolve = @ + Count(steps, {"success"}),
             !.nReject = @ + Count(steps, {"rejectErr", "rejectBody"}),
             !.state = IF ~open THEN @
                       ELSE IF first = "success"
                            THEN (IF okFollows = 0 THEN "resolved" ELSE @)
                            ELSE "rejected",
             !.value = IF ~open THEN @
                       ELSE IF first = "rejectErr" THEN ans.err
                       ELSE IF first = "rejectBody" THEN ans.body
                       ELSE IF okFollows = 0 THEN okValue ELSE @,
             !.follows = IF open /\ first = "success" THEN okFollows ELSE @]]

\* Promise adoption: a pending promise resolved with a promise that has
\* settled takes that promise's state and value.
Adopt(cs) ==
    [i \in DOMAIN cs |->
        IF cs[i].state = "pending" /\ cs[i].follows # 0
           /\ cs[cs[i].follows].state # "pending"
        THEN [cs[i] EXCEPT !.state = cs[cs[i].follows].state,
                           !.value = cs[cs[i].follows].value]
        ELSE cs[i]]

Answered(rs, r, ans) ==
    [rs EXCEPT ![r] = [@ EXCEPT !.answered = TRUE, !.answer = ans]]

Awaiting(r, verb) ==
    /\ r \in DOMAIN requests
    /\ ~requests[r].answered
    /\ calls[requests[r].call].verb = verb

----------------------------------------------------------------------------
\* Init: after client construction and the first login.

Init ==
    /\ clients = [h \in Handles |-> [baseUrl |-> "http://127.0.0.1:8080/auth"]]
    /\ privates = [h \in Handles |-> [accessToken |-> "tok1"]]
    /\ calls = <<>>
    /\ requests = <<>>

\* Re-login: the token of the client handle is replaced.
Login(h, t) ==
    /\ t # privates[h].accessToken
    /\ privates' = [privates EXCEPT ![h].accessToken = t]
    /\ UNCHANGED <<clients, calls, requests>>

----------------------------------------------------------------------------
\* The inner functions.  cap bounds the caller's invocations.

\* create(realm, id, permission)
Create(h, m, realm, id, rec, cap) ==
    LET c == Len(calls) + 1
        call == NewCall(m, "create", realm, id, rec, Undefined, Undefined, 0)
    IN /\ TopLevel < cap
       /\ IF ~TruthyRec(rec)
          THEN /\ calls' = Append(calls, RejectedCall(call, RecMissing(m)))
               /\ UNCHANGED requests
          ELSE /\ calls' = Append(calls, call)
               /\ requests' = Append(requests,
                     Req(c, "POST", CreateUrl(h, m, realm, id, rec), Bearer(h), rec))
       /\ UNCHANGED <<clients, privates>>

\* find(realm, id, permissionType, permissionId): the call and its request,
\* for the caller (parent 0) and for update's refetch alike.
FindCall(m, realm, id, ptype, pid, parent) ==
    NewCall(m, "find", realm, id, UndefinedRec, ptype, pid, parent)

FindReq(h, c, m, realm, id, ptype, pid) ==
    Req(c, "GET", FindUrl(h, m, realm, id, ptype, pid), Bearer(h), UndefinedRec)

Find(h, m, realm, id, ptype, pid, cap) ==
    /\ TopLevel < cap
    /\ calls' = Append(calls, FindCall(m, realm, id, ptype, pid, 0))
    /\ requests' = Append(requests,
          FindReq(h, Len(calls) + 1, m, realm, id, ptype, pid))
    /\ UNCHANGED <<clients, privates>>

\* update(realm, id, permission)
Update(h, m, realm, id, rec, cap) ==
    LET c == Len(calls) + 1
        call == NewCall(m, "update", realm, id, rec, Undefined, Undefined, 0)
    IN /\ TopLevel < cap
       /\ IF ~TruthyRec(rec)
          THEN /\ calls' = Append(calls, RejectedCall(call, RecMissing(m)))
               /\ UNCHANGED requests
          ELSE /\ calls' = Append(calls, call)
               /\ requests' = Append(requests,
                     Req(c, "PUT", UpdateUrl(h, m, realm, id, rec), Bearer(h), rec))
       /\ UNCHANGED <<clients, privates>>

\* remove(realm, id, permissionId)
Remove(h, m, realm, id, pid, cap) ==
    LET c == Len(calls) + 1
        call == NewCall(m, "remove", realm, id, UndefinedRec, Undefined, pid, 0)
    IN /\ TopLevel < cap
       /\ IF ~Truthy(pid)
          THEN /\ calls' = Append(calls, RejectedCall(call, IdMissing(m)))
               /\ UNCHANGED requests
          ELSE /\ calls' = Append(calls, call)
               /\ requests' = Append(requests,
                     Req(c, "DELETE", RemoveUrl(h, m, realm, id, pid), Bearer(h),
                         UndefinedRec))
       /\ UNCHANGED <<clients, privates>>

----------------------------------------------------------------------------
\* The dispatcher's callbacks: request r is answered with ans.

\* create: ... return resolve(body);
CreateCallback(r, ans) ==
    /\ Awaiting(r, "create")
    /\ requests' = Answered(requests, r, ans)
    /\ calls' = Settle(calls, Owner(r), Respond(Expected("create"), ans),
                       ans, ans.body, 0)
    /\ UNCHANGED <<clients, privates>>

\* find: ... return resolve(body);
FindCallback(r, ans) ==
    /\ Awaiting(r, "find")
    /\ requests' = Answered(requests, r, ans)
    /\ calls' = Adopt(Settle(calls, Owner(r), Respond(Expected("find"), ans),
                             ans, ans.body, 0))
    /\ UNCHANGED <<clients, privates>>

\* remove: ... return resolve();
RemoveCallback(r, ans) ==
    /\ Awaiting(r, "remove")
    /\ requests' = Answered(requests, r, ans)
    /\ calls' = Settle(calls, Owner(r), Respond(Expected("remove"), ans),
                       ans, UndefVal, 0)
    /\ UNCHANGED <<clients, privates>>

\* update: ... return resolve(client.clients.authorizations.<module>.find(
\*                                realm, id, permission.type, permission.id));
\* The arguments of the refetching find.
\* (variants: find called without type and id; type and id swapped)
RefetchCollection(u) == <<Authorizations[u.module], u.realm, u.id, Undefined, Undefined>>
RefetchSwapped(u) == <<Authorizations[u.module], u.realm, u.id, u.rec.id, u.rec.type>>
RefetchArgs(u) == <<Authorizations[u.module], u.realm, u.id, u.rec.type, u.rec.id>>

UpdateEffect(h, r, ans) ==
    LET c == Owner(r)
        u == calls[requests[r].call]
        steps == Respond(Expected("update"), ans)
        f == Len(calls) + 1
        a == RefetchArgs(u)
    IN /\ Awaiting(r, "update")
       /\ IF Count(steps, {"success"}) > 0
          THEN /\ calls' = Settle(
                     Append(calls, FindCall(a[1], a[2], a[3], a[4], a[5],
                                            requests[r].call)),
                     c, steps, ans, UndefVal, f)
               /\ requests' = Append(Answered(requests, r, ans),
                     FindReq(h, f, a[1], a[2], a[3], a[4], a[5]))
          ELSE /\ calls' = Settle(calls, c, steps, ans, UndefVal, 0)
               /\ requests' = Answered(requests, r, ans)

\* (variant: a PUT not answered 204 drops the stored token)
UpdateCallbackClearsToken(h, r, ans) ==
    /\ UpdateEffect(h, r, ans)
    /\ privates' = [privates EXCEPT ![h].accessToken =
                       IF ans.statusCode = 204 THEN @ ELSE Undefined]
    /\ UNCHANGED clients
UpdateCallback(h, r, ans) ==
    /\ UpdateEffect(h, r, ans)
    /\ UNCHANGED <<clients, privates>>

----------------------------------------------------------------------------
\* The caller invokes one of the inner functions with arguments of the
\* given domains.
Invoke(cap, recs, fargs, ids) ==
    \/ \E m \in Modules, realm \in Realms, id \in ClientIds, rec \in recs :
          Create(Handle, m, realm, id, rec, cap)
    \/ \E m \in Modules, realm \in Realms, id \in ClientIds, a \in fargs :
          Find(Handle, m, realm, id, a[1], a[2], cap)
    \/ \E m \in Modules, realm \in Realms, id \in ClientIds, rec \in recs :
          Update(Handle, m, realm, id, rec, cap)
    \/ \E m \in Modules, realm \in Realms, id \in ClientIds, pid \in ids :
          Remove(Handle, m, realm, id, pid, cap)

\* The dispatcher answers one of the outstanding requests.
Deliver(answers) ==
    \/ \E r \in DOMAIN requests, ans \in answers : CreateCallback(r, ans)
    \/ \E r \in DOMAIN requests, ans \in answers : FindCallback(r, ans)
    \/ \E r \in DOMAIN requests, ans \in answers : UpdateCallback(Handle, r, ans)
    \/ \E r \in DOMAIN requests, ans \in answers : RemoveCallback(r, ans)

\* Spec: up to MaxCalls invocations by the caller with any arguments; the
\* dispatcher answers anything.
Next ==
    \/ Invoke(MaxCalls, Records, FindArgs, ArgIds)
    \/ Deliver(Answers)

Spec == Init /\ [][Next]_vars

\* SpecLogin: as Spec over the reduced domains, with re-logins at any moment.
NextLogin ==
    \/ Invoke(MaxCalls, RecordsSmall, FindArgsSmall, ArgIdsSmall)
    \/ Deliver(AnswersSmall)
    \/ \E t \in Tokens : Login(Handle, t)

SpecLogin == Init /\ [][NextLogin]_vars

\* SpecConc: up to MaxInFlight invocations in flight at once over the reduced
\* domains, their responses delivered in any order.
NextConc ==
    \/ Invoke(MaxInFlight, RecordsSmall, FindArgsSmall, ArgIdsSmall)
    \/ Deliver(AnswersSmall)

SpecConc == Init /\ [][NextConc]_vars

----------------------------------------------------------------------------
\* Vocabulary of the properties

Absent(v) == v \in {Undefined, Null, ""}
AbsentRec(rec) == rec.k \in {"undefined", "null"}

\* The invocation passed its argument check.
Passed(c) ==
    CASE calls[c].verb \in {"create", "update"} -> ~AbsentRec(calls[c].rec)
      [] calls[c].verb = "remove" -> ~Absent(calls[c].pid)
      [] OTHER -> TRUE

Callers == {c \in DOMAIN calls : calls[c].parent = 0}
OwnReqs(c) == {r \in DOMAIN requests : requests[r].call = c}
Kids(c) == {f \in DOMAIN calls : calls[f].parent = c}
\* Every request made on behalf of the caller's invocation c.
LifetimeReqs(c) == OwnReqs(c) \cup UNION {OwnReqs(f) : f \in Kids(c)}
Only(S) == CHOOSE x \in S : TRUE

Failed(ans, code) == ans.err.k # "undefined" \/ ans.statusCode # code
Payload(ans) == IF ans.err.k # "undefined" THEN ans.err ELSE ans.body
Code(verb) == IF verb = "create" THEN 201 ELSE IF verb = "find" THEN 200 ELSE 204
Missing(c) ==
    [k |-> "Error",
     v |-> <<(IF calls[c].module = "permissions" THEN "permission" ELSE "policy")
             \o (IF calls[c].verb = "remove" THEN "Id" ELSE "")
             \o " is missing">>]
Settled(c) == calls[c].state # "pending"
RejectedWith(c, x) == calls[c].state = "rejected" /\ calls[c].value = x
ResolvedWith(c, x) == calls[c].state = "resolved" /\ calls[c].value = x
Put204(u) ==
    /\ calls[u].verb = "update"
    /\ \E r \in OwnReqs(u) :
          requests[r].answered /\ ~Failed(requests[r].answer, 204)
CollectionUrl(c) ==
    <<clients[Handle].baseUrl, "admin", "realms", calls[c].realm, "clients",
      calls[c].id, "authz", "resource-server",
      IF calls[c].module = "permissions" THEN "permission" ELSE "policy">>

----------------------------------------------------------------------------
\* C1: a create or update call with an absent record, and a remove call with
\* an absent id, in either module, is rejected with the missing-argument
\* error and never has a request issued for it, whatever the token is.
C1_MissingArgumentRejects ==
    \A c \in DOMAIN calls :
        ~Passed(c) =>
            /\ RejectedWith(c, Missing(c))
            /\ LifetimeReqs(c) = {}
            /\ Kids(c) = {}

C1_Witness ==
    \E c \in DOMAIN calls :
        /\ calls[c].verb = "remove" /\ calls[c].module = "policies"
        /\ calls[c].pid = ""
        /\ privates[Handle].accessToken = "tok2"
        /\ RejectedWith(c, Missing(c))
        /\ requests = <<>>

\* C2: for every update call with a non-absent record, once the PUT is
\* answered 204 exactly one find call was made, with the update's module,
\* realm, parent id, record type and record id, it issued one request, and
\* the update's promise has the state and value of that find's promise;
\* while the PUT is unanswered, or answered otherwise, no find call is made.
C2_UpdateRefetchesOnce ==
    \A u \in DOMAIN calls :
        (calls[u].verb = "update" /\ Passed(u)) =>
            IF Put204(u)
            THEN /\ Cardinality(Kids(u)) = 1
                 /\ LET f == Only(Kids(u))
                    IN /\ calls[f].verb = "find"
                       /\ calls[f].module = calls[u].module
                       /\ calls[f].realm = calls[u].realm
                       /\ calls[f].id = calls[u].id
                       /\ calls[f].ptype = calls[u].rec.type
                       /\ calls[f].pid = calls[u].rec.id
                       /\ Cardinality(OwnReqs(f)) = 1
                       /\ calls[u].state = calls[f].state
                       /\ calls[u].value = calls[f].value
            ELSE Kids(u) = {}

C2_Witness ==
    \E u \in DOMAIN calls :
        /\ Put204(u)
        /\ ResolvedWith(u, ObjBody)
        /\ \E f \in Kids(u) : \E r \in OwnReqs(f) :
              /\ requests[r].answered
              /\ requests[r].answer.statusCode = 200
              /\ requests[r].answer.body = ObjBody

\* C3 as stated: for every verb, a transport error rejects with that error,
\* and otherwise the call succeeds exactly when the status code is the
\* verb's expected code and rejects with the body for any other code.
C3_Original ==
    \A c \in DOMAIN calls, r \in DOMAIN requests :
        (requests[r].call = c /\ requests[r].answered /\ Settled(c)) =>
            LET ans == requests[r].answer
            IN IF ans.err.k # "undefined" THEN RejectedWith(c, ans.err)
               ELSE IF ans.statusCode = Code(calls[c].verb)
                    THEN calls[c].state = "resolved"
                    ELSE RejectedWith(c, ans.body)

\* C3 as amended: for create, find and remove the outcome is that function
\* of the answer; for update a transport error or a status other than 204
\* rejects in the same way, and a 204 gives the update the outcome of the
\* refetching find.
C3_StatusMapping ==
    \A c \in DOMAIN calls, r \in DOMAIN requests :
        (requests[r].call = c /\ requests[r].answered) =>
            LET ans == requests[r].answer
                verb == calls[c].verb
            IN IF ans.err.k # "undefined" THEN RejectedWith(c, ans.err)
               ELSE IF ans.statusCode # Code(verb) THEN RejectedWith(c, ans.body)
               ELSE CASE verb = "remove" -> ResolvedWith(c, UndefVal)
                      [] verb = "update" ->
                            \E f \in Kids(c) :
                                /\ calls[c].state = calls[f].state
                                /\ calls[c].value = calls[f].value
                      [] OTHER -> ResolvedWith(c, ans.body)

C3_Witness ==
    \E c \in DOMAIN calls, r \in DOMAIN requests :
        /\ requests[r].call = c /\ requests[r].answered
        /\ calls[c].verb = "create"
        /\ requests[r].answer.err = UndefVal
        /\ requests[r].answer.statusCode = 200
        /\ RejectedWith(c, requests[r].answer.body)

\* C4 as stated: every invocation by the caller that passes its argument
\* check has exactly one request made for it over its whole lifetime, and
\* its result is settled at most once, never both resolved and rejected.
C4_Original ==
    \A c \in Callers :
        Passed(c) =>
            /\ Cardinality(LifetimeReqs(c)) = 1
            /\ calls[c].nResolve + calls[c].nReject <= 1

\* C4 as amended: create, find and remove have exactly one request; update
\* has exactly one PUT and, exactly when that PUT was answered 204 without a
\* transport error, one further GET issued through find; resolve and reject
\* together are called at most once per invocation.
C4_OneRequestOneSettle ==
    /\ \A c \in Callers :
          Passed(c) =>
              /\ Cardinality(OwnReqs(c)) = 1
              /\ Cardinality(LifetimeReqs(c)) = IF Put204(c) THEN 2 ELSE 1
              /\ \A r \in LifetimeReqs(c) \ OwnReqs(c) : requests[r].method = "GET"
    /\ \A c \in DOMAIN calls :
          /\ calls[c].nResolve + calls[c].nReject <= 1
          /\ ~(calls[c].nResolve > 0 /\ calls[c].nReject > 0)
          /\ Settled(c) => calls[c].nResolve + calls[c].nReject = 1

C4_Witness ==
    \E u \in Callers :
        /\ Put204(u)
        /\ calls[u].state = "rejected"
        /\ calls[u].nResolve = 1 /\ calls[u].nReject = 0
        /\ Cardinality(LifetimeReqs(u)) = 2
        /\ \A r \in LifetimeReqs(u) : requests[r].answered

\* C5 as stated: whenever the PUT of an update call is answered 204, the
\* update resolves with the single record addressed by the submitted type
\* and id (never the collection, never a rejection), for every non-absent
\* record.
C5_Original ==
    \A u \in DOMAIN calls :
        (Put204(u) /\ Settled(u)) =>
            /\ calls[u].state = "resolved"
            /\ \A f \in Kids(u) : \A r \in OwnReqs(f) :
                  requests[r].url = CollectionUrl(u) \o
                      <<calls[u].rec.type, calls[u].rec.id>>

\* C5 as amended: whenever the PUT of an update call is answered 204, the
\* refetch addresses the single record of the submitted type and id when the
\* record has both, and the collection otherwise; the update resolves with
\* the body of the refetch when that is answered 200 without transport
\* error, and rejects with its error or body otherwise.
C5_UpdateReturnsRefetch ==
    \A u \in DOMAIN calls :
        Put204(u) =>
            \E f \in Kids(u) : \E r \in OwnReqs(f) :
                /\ requests[r].url =
                      IF ~Absent(calls[u].rec.type) /\ ~Absent(calls[u].rec.id)
                      THEN CollectionUrl(u) \o <<calls[u].rec.type, calls[u].rec.id>>
                      ELSE CollectionUrl(u)
                /\ IF ~requests[r].answered THEN ~Settled(u)
                   ELSE IF Failed(requests[r].answer, 200)
                        THEN RejectedWith(u, Payload(requests[r].answer))
                        ELSE ResolvedWith(u, requests[r].answer.body)

C5_Witness ==
    \E u \in DOMAIN calls :
        /\ Put204(u)
        /\ calls[u].rec = Obj("resource", "p1")
        /\ ResolvedWith(u, ObjBody)
        /\ \E f \in Kids(u) : \E r \in OwnReqs(f) :
              /\ requests[r].url = CollectionUrl(u) \o <<"resource", "p1">>
              /\ requests[r].answer.body = ObjBody

\* C6: a find call addresses the single-record URL .../{type}/{id} exactly
\* when type and id are both given, and the collection URL in every other
\* case; answered 200 it resolves with exactly the body the server sent.
C6_FindUrlAndBody ==
    \A f \in DOMAIN calls :
        calls[f].verb = "find" =>
            /\ Cardinality(OwnReqs(f)) = 1
            /\ \A r \in OwnReqs(f) :
                  /\ requests[r].method = "GET"
                  /\ (~Absent(calls[f].ptype) /\ ~Absent(calls[f].pid))
                        => requests[r].url =
                              CollectionUrl(f) \o <<calls[f].ptype, calls[f].pid>>
                  /\ (Absent(calls[f].ptype) \/ Absent(calls[f].pid))
                        => requests[r].url = CollectionUrl(f)
                  /\ (requests[r].answered /\ ~Failed(requests[r].answer, 200))
                        => ResolvedWith(f, requests[r].answer.body)

C6_Witness ==
    \E f \in DOMAIN calls : \E r \in OwnReqs(f) :
        /\ calls[f].verb = "find"
        /\ calls[f].ptype = "resource" /\ calls[f].pid = Undefined
        /\ requests[r].url = CollectionUrl(f)
        /\ requests[r].answer.statusCode = 200
        /\ calls[f].state = "resolved"
        /\ calls[f].value.k = "array"
        /\ Len(calls[f].value.v) = 2
        /\ calls[f].value.v = <<"perm-a", "perm-b">>

\* C7: once a request of an invocation failed (transport error or unexpected
\* status), no later request is made for that invocation and its result is
\* rejected with that failure's error or body; an update whose refetching
\* find fails rejects with the find's error or body.
C7_FailurePropagates ==
    \A r \in DOMAIN requests :
        LET c == requests[r].call
            top == IF calls[c].parent = 0 THEN c ELSE calls[c].parent
        IN (requests[r].answered
            /\ Failed(requests[r].answer, Code(calls[c].verb))) =>
              /\ RejectedWith(c, Payload(requests[r].answer))
              /\ RejectedWith(top, Payload(requests[r].answer))
              /\ \A q \in LifetimeReqs(top) : q <= r

C7_Witness ==
    \E u \in Callers :
        /\ Put204(u)
        /\ Cardinality(LifetimeReqs(u)) = 2
        /\ \E f \in Kids(u) : \E r \in OwnReqs(f) :
              /\ requests[r].answered
              /\ requests[r].answer.statusCode = 404
              /\ RejectedWith(u, requests[r].answer.body)

\* C8: every request carries the token the credential store holds at the
\* moment the request is built, and keeps it: a request built after a
\* re-login carries the new token, so the PUT and the refetching GET of one
\* update call carry different tokens when a re-login falls between them.
C8_BearerIsCurrentToken ==
    [][ /\ \A r \in DOMAIN requests' \ DOMAIN requests :
              requests'[r].bearer = privates[Handle].accessToken
        /\ \A r \in DOMAIN requests :
              requests'[r].bearer = requests[r].bearer ]_vars

C8_Witness ==
    \E u \in Callers :
        /\ Put204(u)
        /\ \E p \in OwnReqs(u) : \E f \in Kids(u) : \E g \in OwnReqs(f) :
              /\ requests[p].bearer = "tok1"
              /\ requests[g].bearer = "tok2"
              /\ privates[Handle].accessToken = "tok2"

\* C9: a step of create, find, update or remove, or of one of their
\* callbacks, leaves the credential store (token and base URL of every
\* client handle) unchanged, whatever the arguments and the outcome.
C9_StoreUnchanged ==
    [][ (calls' # calls \/ requests' # requests)
            => (privates' = privates /\ clients' = clients) ]_vars

C9_Witness ==
    /\ privates[Handle].accessToken = "tok2"
    /\ \E u \in Callers :
          /\ calls[u].verb = "update"
          /\ \E r \in OwnReqs(u) :
                /\ requests[r].answered
                /\ requests[r].bearer = "tok2"
                /\ requests[r].answer.err = UndefVal
                /\ requests[r].answer.statusCode = 200
                /\ RejectedWith(u, requests[r].answer.body)

\* C10: with several invocations in flight and responses delivered in any
\* order, the promise of every invocation is what its own arguments and the
\* answers to its own requests determine, so no response to another call's
\* request settles it and every delivery order gives the same outcome.
Own(c) ==
    IF ~Passed(c) THEN <<"rejected", Missing(c)>>
    ELSE LET r == Only(OwnReqs(c))
             ans == requests[r].answer
         IN IF ~requests[r].answered THEN <<"pending", UndefVal>>
            ELSE IF Failed(ans, Code(calls[c].verb)) THEN <<"rejected", Payload(ans)>>
            ELSE IF calls[c].verb = "remove" THEN <<"resolved", UndefVal>>
            ELSE <<"resolved", ans.body>>

C10_OutcomeFromOwnResponses ==
    \A c \in DOMAIN calls :
        /\ Passed(c) => Cardinality(OwnReqs(c)) = 1
        /\ IF Passed(c) /\ Put204(c)
           THEN /\ Cardinality(Kids(c)) = 1
                /\ <<calls[c].state, calls[c].value>> = Own(Only(Kids(c)))
           ELSE <<calls[c].state, calls[c].value>> = Own(c)

C10_Witness ==
    \E c \in Callers, d \in Callers :
        /\ c < d
        /\ calls[c].verb = "find" /\ calls[d].verb = "find"
        /\ \E r \in OwnReqs(c) : \E q \in OwnReqs(d) :
              /\ ~requests[r].answered /\ calls[c].state = "pending"
              /\ requests[q].answered
              /\ RejectedWith(d, Econn)

====
